---- MODULE Spec2Model ----
(***************************************************************************)
(* A model of rewire_fastapi: the configuration tree, the setup hooks that *)
(* mutate the FastAPI application, the run hook that delegates to an ASGI  *)
(* server, the dependency-override rewriting of route dependants, and the  *)
(* Patch helper.                                                           *)
(*                                                                         *)
(* Strings whose characters matter (tags, tag prefixes) are sequences of   *)
(* one-character strings, so that f"{prefix}{x}" is \o and removesuffix    *)
(* inspects the last character.                                            *)
(***************************************************************************)
EXTENDS Integers, Sequences, FiniteSets, TLC

VARIABLES
    cfg,        \* Config.Value: the configuration tree
    app,        \* the FastAPI application object (created by create_fastapi)
    swagger,    \* fastapi.openapi.docs / fastapi.applications get_swagger_ui_html
    done,       \* the hooks that have completed
    lm,         \* the LifecycleModule, when one is available
    server,     \* the ASGI server the run hook builds and serves
    run,        \* outcome of the run hook run_fastapi_app
    patch,      \* a Patch instance and the object it is applied to
    hist        \* history: values recorded for stating the properties

vars == <<cfg, app, swagger, done, lm, server, run, patch, hist>>

None == "None"

\* ------------------------------------------------------------------ bounds

MaxRoutes == 2
MaxOverrides == 2
RecursionLimit == 8
MaxStops == 2

\* ----------------------------------------------------------------- helpers

SeqsUpTo(S, n) == UNION {[1..k -> S] : k \in 0..n}

Range(s) == {s[i] : i \in 1..Len(s)}

\* Optional[T] for values that are not strings: None is the empty set and a
\* value v is {v}
NoneOf == {}
Some(v) == {v}
Get(o) == CHOOSE v \in o : TRUE

\* ------------------------------------------------------------ patch.py

Fields == {"x", "y"}
TargetAttrs == Fields \cup {"id"}
Values == {None, "v1", "v2"}

\* a plausible slip: explicitly supplied None is skipped
SetAttrSkipNone(to, field, value) ==
    IF value = None THEN to ELSE
    [a \in (DOMAIN to) \cup {field} |-> IF a = field THEN value ELSE to[a]]

\* setattr(to, field, value): the attribute is created when absent
SetAttr(to, field, value) ==
    [a \in (DOMAIN to) \cup {field} |-> IF a = field THEN value ELSE to[a]]

\* for field in self.data.__pydantic_fields_set__: setattr(to, field, getattr(self.data, field))
RECURSIVE ApplyLoop(_, _, _)
ApplyLoop(data, remaining, to) ==
    IF remaining = {} THEN to
    ELSE LET field == CHOOSE f \in remaining : TRUE
         IN ApplyLoop(data, remaining \ {field}, SetAttr(to, field, data[field]))

\* Patch.apply(to)
PatchApply(p, to) == ApplyLoop(p.data, p.fields_set, to)

\* Patch._update_model: every field of the model becomes optional with default
\* None, so a validated input holds None for each field that was not supplied
PatchInputs ==
    {[data |-> [f \in Fields |-> IF f \in s THEN d[f] ELSE None], fields_set |-> s] :
        s \in SUBSET Fields, d \in [Fields -> Values]}

Targets == UNION {[A -> Values] : A \in SUBSET TargetAttrs}

\* ------------------------------------------------- __init__.py: values

\* str.removesuffix(":"): one trailing ":" is removed, when there is one
RemoveSuffix(s) ==
    IF Len(s) > 0 /\ s[Len(s)] = ":" THEN SubSeq(s, 1, Len(s) - 1) ELSE s

\* a plausible slip: rstrip(":") removes every trailing ":"
RECURSIVE RStrip(_)
RStrip(s) ==
    IF Len(s) > 0 /\ s[Len(s)] = ":" THEN RStrip(SubSeq(s, 1, Len(s) - 1)) ELSE s

\* f"{config.routes.tag_prefix}{x}".removesuffix(":")
PrefixedTag(prefix, x) == RemoveSuffix(prefix \o x)

\* a route of app.router.routes; only an APIRoute has tags and a dependant
\* that the hooks read
IsAPIRoute(route) == route.kind = "APIRoute"

\* ---------------------------------------- fastapi dependants (get_dependant)

\* the callables of the application and the dependencies each declares in its
\* signature: (callable, parameter name, use_cache, own security scopes)
Calls == {"e", "a", "b", "w", "s"}

Dep(call, name, use_cache, scopes) ==
    [call |-> call, name |-> name, use_cache |-> use_cache, scopes |-> scopes]

Sig ==
    [c \in Calls |->
        CASE c = "e" -> <<Dep("a", "pa", TRUE, <<>>), Dep("b", "pb", FALSE, <<"s1">>)>>
          [] c = "a" -> <<Dep("b", "qb", TRUE, <<>>)>>
          [] c = "b" -> <<>>
          [] c = "w" -> <<Dep("a", "wa", FALSE, <<"s2">>)>>
          [] c = "s" -> <<>>]

Dependant(call, path, name, use_cache, security_scopes, dependencies) ==
    [call |-> call, path |-> path, name |-> name, use_cache |-> use_cache,
     security_scopes |-> security_scopes, dependencies |-> dependencies]

\* fastapi.dependencies.utils.get_dependant: the dependant of a callable, with
\* one sub-dependant per dependency its signature declares; the path and the
\* security scopes are handed down
RECURSIVE get_dependant(_, _, _, _, _)
get_dependant(call, path, name, use_cache, security_scopes) ==
    Dependant(call, path, name, use_cache, security_scopes,
        [i \in 1..Len(Sig[call]) |->
            get_dependant(Sig[call][i].call, path, Sig[call][i].name,
                          Sig[call][i].use_cache,
                          security_scopes \o Sig[call][i].scopes)])

RecursionError == [raised |-> "RecursionError"]
Raised(result) == "raised" \in DOMAIN result

\* a plausible slip: the dependencies of the replacement are not visited
RECURSIVE patch_dependant_shallow(_, _, _)
patch_dependant_shallow(dependant, overrides, depth) ==
    IF depth > RecursionLimit THEN RecursionError
    ELSE IF dependant.call \in DOMAIN overrides
    THEN get_dependant(overrides[dependant.call], dependant.path, dependant.name,
                       dependant.use_cache, dependant.security_scopes)
    ELSE
    LET new_dependencies ==
            [i \in 1..Len(dependant.dependencies) |->
                patch_dependant_shallow(dependant.dependencies[i], overrides, depth + 1)]
    IN  IF \E i \in 1..Len(new_dependencies) : Raised(new_dependencies[i])
        THEN RecursionError
        ELSE IF new_dependencies # dependant.dependencies
             THEN [dependant EXCEPT !.dependencies = new_dependencies]
             ELSE dependant

\* patch_dependant(dependant, config); depth is the interpreter's recursion
\* depth, and the result is RecursionError when it passes the limit
RECURSIVE patch_dependant(_, _, _)
patch_dependant(dependant, overrides, depth) ==
    IF depth > RecursionLimit THEN RecursionError
    ELSE
    LET replaced ==
            IF dependant.call \in DOMAIN overrides
            THEN get_dependant(overrides[dependant.call], dependant.path,
                               dependant.name, dependant.use_cache,
                               dependant.security_scopes)
            ELSE dependant
        new_dependencies ==
            [i \in 1..Len(replaced.dependencies) |->
                patch_dependant(replaced.dependencies[i], overrides, depth + 1)]
        should_clone == new_dependencies # replaced.dependencies
    IN  IF \E i \in 1..Len(new_dependencies) : Raised(new_dependencies[i])
        THEN RecursionError
        ELSE IF should_clone
             THEN [replaced EXCEPT !.dependencies = new_dependencies]
             ELSE replaced

\* ------------------------------------------------ __init__.py: setup hooks

\* FastAPI(**config.app.model_dump()): the application as FastAPI builds it,
\* with its documentation routes (plain Routes, not APIRoutes)
DocsRoute == [kind |-> "Route", path |-> "/docs"]

FastAPI(app_config) ==
    [created |-> TRUE,
     routes |-> <<DocsRoute>>,
     openapi_tags |-> app_config.openapi_tags,
     user_middleware |-> <<>>,
     dependency_overrides |-> <<>>,
     on_shutdown |-> <<>>]

NoApp ==
    [created |-> FALSE, routes |-> <<>>, openapi_tags |-> NoneOf,
     user_middleware |-> <<>>, dependency_overrides |-> <<>>, on_shutdown |-> <<>>]

\* create_fastapi(config)
create_fastapi(config) == FastAPI(config.app)

\* add_middleware(app, config); app.add_middleware inserts at the front
add_middleware(a, config) ==
    IF config.middleware.cors # NoneOf
    THEN [a EXCEPT !.user_middleware = <<"CORSMiddleware">> \o @]
    ELSE a

\* stop_on_app_stop(app): LifecycleModule.get() raises LookupError when no
\* lifecycle module is available, and suppress(LookupError) skips the rest
stop_on_app_stop(a, lifecycle) ==
    IF lifecycle.available
    THEN [a EXCEPT !.on_shutdown = Append(@, "shutdown")]
    ELSE a

\* add_hierarchial_tags(config): the value of get_swagger_ui_html afterwards
add_hierarchial_tags(current, config) ==
    IF ~config.patch.swagger_hierarchical_tags
    THEN current
    ELSE "get_swagger_ui_html_patched"

\* the body of the loop over app.router.routes in patch_router_tags
patch_route_tags(route, config) ==
    IF ~IsAPIRoute(route) THEN route
    ELSE IF config.routes.tag_prefix # <<>>
         THEN [route EXCEPT !.tags =
                 [j \in 1..Len(route.tags) |->
                     PrefixedTag(config.routes.tag_prefix, route.tags[j])]]
         ELSE route

\* a plausible slip: the openapi tag names keep every trailing ":" stripped
patch_openapi_tags_rstrip(a, config) ==
    IF a.openapi_tags # NoneOf /\ Get(a.openapi_tags) # <<>>
       /\ config.routes.tag_prefix # <<>>
    THEN Some([k \in 1..Len(Get(a.openapi_tags)) |->
            [Get(a.openapi_tags)[k] EXCEPT
                !.name = RStrip(config.routes.tag_prefix \o @)]])
    ELSE a.openapi_tags

\* the loop over app.openapi_tags in patch_router_tags
patch_openapi_tags(a, config) ==
    IF a.openapi_tags # NoneOf /\ Get(a.openapi_tags) # <<>>
       /\ config.routes.tag_prefix # <<>>
    THEN Some([k \in 1..Len(Get(a.openapi_tags)) |->
            [Get(a.openapi_tags)[k] EXCEPT
                !.name = RemoveSuffix(config.routes.tag_prefix \o @)]])
    ELSE a.openapi_tags

\* a plausible slip: patch.tag_prefixes is not consulted
patch_router_tags_untoggled(a, config) ==
    [a EXCEPT
        !.routes = [i \in 1..Len(a.routes) |-> patch_route_tags(a.routes[i], config)],
        !.openapi_tags = patch_openapi_tags(a, config)]

\* patch_router_tags(app, config)
patch_router_tags(a, config) ==
    IF ~config.patch.tag_prefixes THEN a
    ELSE [a EXCEPT
            !.routes = [i \in 1..Len(a.routes) |-> patch_route_tags(a.routes[i], config)],
            !.openapi_tags = patch_openapi_tags(a, config)]

\* dict.update
DictUpdate(d, other) ==
    [k \in (DOMAIN d) \cup (DOMAIN other) |->
        IF k \in DOMAIN other THEN other[k] ELSE d[k]]

\* the loop over app.router.routes in patch_router_dependency_overrides, from
\* route i on: a RecursionError leaves the routes before i patched and the
\* rest as they were
RECURSIVE patch_routes(_, _, _)
patch_routes(routes, i, overrides) ==
    IF i > Len(routes) THEN [routes |-> routes, raised |-> FALSE]
    ELSE IF ~IsAPIRoute(routes[i]) THEN patch_routes(routes, i + 1, overrides)
    ELSE LET d == patch_dependant(routes[i].dependant, overrides, 1)
         IN  IF Raised(d) THEN [routes |-> routes, raised |-> TRUE]
             ELSE patch_routes([routes EXCEPT ![i].dependant = d], i + 1, overrides)

\* patch_router_dependency_overrides(app, config): the application afterwards,
\* and whether the hook raised
patch_router_dependency_overrides(a, config) ==
    IF DOMAIN config.patch.dependency_overrides = {}
    THEN [app |-> a, raised |-> FALSE]
    ELSE LET r == patch_routes(a.routes, 1, config.patch.dependency_overrides)
         IN  [app |-> [a EXCEPT
                        !.dependency_overrides =
                            DictUpdate(@, config.patch.dependency_overrides),
                        !.routes = r.routes],
              raised |-> r.raised]

\* -------------------------------------------------- __init__.py: run hooks

\* uvicorn.config.Config(app, **cfg.uvicorn.model_dump(exclude={"enabled"})):
\* UvicornConfig allows extra keys, so reload, uds and workers reach uvicorn,
\* whose Config keeps reload and uds and stores workers or 1
uvicorn_Config(uvicorn_config) ==
    [reload |-> uvicorn_config.reload,
     uds |-> uvicorn_config.uds,
     workers |-> IF uvicorn_config.workers = NoneOf \/ Get(uvicorn_config.workers) = 0
                 THEN 1 ELSE Get(uvicorn_config.workers)]

NoServer == [kind |-> "none", state |-> "none", should_exit |-> FALSE]

\* uvicorn.Server(config=config)
uvicorn_Server == [kind |-> "uvicorn", state |-> "created", should_exit |-> FALSE]

Outcome(result, srv, lifecycle) ==
    [result |-> result, server |-> srv, lm |-> lifecycle]

\* a plausible slip: the workers check is missing
run_uvicorn_any_workers(config, lifecycle) ==
    IF ~config.uvicorn.enabled THEN Outcome("returned", NoServer, lifecycle)
    ELSE LET config_ == uvicorn_Config(config.uvicorn)
         IN  IF config_.reload THEN Outcome("NotImplementedError", uvicorn_Server, lifecycle)
             ELSE IF config_.uds # None /\ config_.uds # ""
             THEN Outcome("NotImplementedError", uvicorn_Server, lifecycle)
             ELSE Outcome("serving", [uvicorn_Server EXCEPT !.state = "serving"],
                     IF lifecycle.available
                     THEN [lifecycle EXCEPT !.on_stop = Append(@, "stop")]
                     ELSE lifecycle)

\* run_uvicorn(app, cfg) up to the await of server.serve(): "returned" when
\* uvicorn is disabled, "NotImplementedError" when it raises, "serving" when
\* server.serve() is reached; the stop callback is registered with the
\* lifecycle module unless LifecycleModule.get() raises LookupError
run_uvicorn(config, lifecycle) ==
    IF ~config.uvicorn.enabled THEN Outcome("returned", NoServer, lifecycle)
    ELSE LET config_ == uvicorn_Config(config.uvicorn)
         IN  IF config_.reload THEN Outcome("NotImplementedError", uvicorn_Server, lifecycle)
             ELSE IF config_.uds # None /\ config_.uds # ""
             THEN Outcome("NotImplementedError", uvicorn_Server, lifecycle)
             ELSE IF config_.workers > 1
             THEN Outcome("NotImplementedError", uvicorn_Server, lifecycle)
             ELSE Outcome("serving", [uvicorn_Server EXCEPT !.state = "serving"],
                     IF lifecycle.available
                     THEN [lifecycle EXCEPT !.on_stop = Append(@, "stop")]
                     ELSE lifecycle)

\* run_hypercorn(app, cfg): lib is sniffio.current_async_library()
run_hypercorn(config, lifecycle, lib) ==
    IF lib \in {"asyncio", "trio"}
    THEN Outcome("serving",
                 [kind |-> "hypercorn", state |-> "serving", should_exit |-> FALSE],
                 lifecycle)
    ELSE Outcome("NotImplementedError", NoServer, lifecycle)

\* a plausible slip: the default branch falls through to hypercorn
run_fastapi_app_else(config, lifecycle, lib) ==
    IF config.server = "uvicorn"
    THEN [called |-> {"run_uvicorn"}] @@ run_uvicorn(config, lifecycle)
    ELSE [called |-> {"run_hypercorn"}] @@ run_hypercorn(config, lifecycle, lib)

\* run_fastapi_app(app, cfg) up to the await of the server: the runners it
\* called and the outcome
run_fastapi_app(config, lifecycle, lib) ==
    IF config.server = "uvicorn"
    THEN [called |-> {"run_uvicorn"}] @@ run_uvicorn(config, lifecycle)
    ELSE IF config.server = "hypercorn"
    THEN [called |-> {"run_hypercorn"}] @@ run_hypercorn(config, lifecycle, lib)
    ELSE [called |-> {}] @@ Outcome("returned", NoServer, lifecycle)

\* a plausible slip: the flag is cleared instead of set
stop_clears(srv) == [srv EXCEPT !.should_exit = FALSE]

\* the stop callback run_uvicorn registers: server.should_exit = True
stop(srv) == [srv EXCEPT !.should_exit = TRUE]

\* LifecycleModule.stop(): every registered on_stop callback is called
lm_stop(lifecycle, srv) ==
    [lm |-> [lifecycle EXCEPT !.stop_calls = @ + 1],
     server |-> IF "stop" \in Range(lifecycle.on_stop) THEN stop(srv) ELSE srv]

\* the shutdown handler stop_on_app_stop registers: await lm.stop()
shutdown(lifecycle, srv) == lm_stop(lifecycle, srv)

\* ------------------------------------------------------------ configuration

ConfigValue(server_, uvicorn, openapi_tags, tag_prefix, patch_, cors) ==
    [server |-> server_,
     app |-> [openapi_tags |-> openapi_tags],
     routes |-> [tag_prefix |-> tag_prefix],
     uvicorn |-> uvicorn,
     patch |-> patch_,
     middleware |-> [cors |-> cors]]

\* Config.server: Literal["uvicorn", "hypercorn", None]
Servers == {"uvicorn", "hypercorn", None}

\* UvicornConfig, with the extra keys run_uvicorn reads back from uvicorn
UvicornConfigs ==
    [enabled : BOOLEAN, reload : BOOLEAN, uds : {None, "", "/run/app.sock"},
     workers : {NoneOf, Some(1), Some(2)}]

UvicornDefault ==
    [enabled |-> TRUE, reload |-> FALSE, uds |-> None, workers |-> NoneOf]

\* CORSConfig()
CORSDefault == [allow_origins |-> <<>>, allow_credentials |-> TRUE]

\* tags and tag prefixes, as sequences of characters
Str_v1 == <<"v", "1">>
Str_v1c == <<"v", "1", ":">>
Str_c == <<":">>
Str_users == <<"u">>
Str_usersc == <<"u", ":">>
Str_userscc == <<"u", ":", ":">>

TagPrefixes == {<<>>, Str_v1, Str_v1c, Str_c}
TagNames == {<<>>, Str_users, Str_usersc, Str_userscc}
TagLists == {<<>>, <<Str_users>>, <<Str_usersc, <<>>>>, <<Str_userscc, Str_users>>}

OpenapiTag(name) == [name |-> name, description |-> "d"]

OpenapiTagLists ==
    {NoneOf, Some(<<>>)} \cup {Some(<<OpenapiTag(n)>>) : n \in TagNames}
        \cup {Some(<<OpenapiTag(Str_users), OpenapiTag(Str_usersc)>>)}

\* PatchConfig.dependency_overrides: a mapping from callables to callables
OverrideMaps ==
    UNION {[K -> Calls] : K \in {D \in SUBSET Calls : Cardinality(D) <= MaxOverrides}}

PatchConfigs(overrides) ==
    [swagger_hierarchical_tags : BOOLEAN, tag_prefixes : BOOLEAN,
     dependency_overrides : overrides]

PatchDefault ==
    [swagger_hierarchical_tags |-> FALSE, tag_prefixes |-> TRUE,
     dependency_overrides |-> <<>>]

\* APIRoute(path, endpoint, tags=tags): its dependant is
\* get_dependant(path=path, call=endpoint)
APIRoute(path, endpoint, tags) ==
    [kind |-> "APIRoute", path |-> path, tags |-> tags,
     dependant |-> get_dependant(endpoint, path, None, TRUE, <<>>)]

Mount(path) == [kind |-> "Mount", path |-> path]

\* the override mappings and routes of the startup runs
StartupOverrides == {<<>>, [c \in {"a"} |-> "s"], [c \in {"b"} |-> "w"]}
StartupRoutes ==
    {APIRoute("/e", "e", <<Str_usersc>>), APIRoute("/a", "a", <<Str_users, <<>>>>),
     Mount("/static")}

SetupHooks ==
    {"create_fastapi", "add_middleware", "stop_on_app_stop", "add_hierarchial_tags",
     "patch_router_tags", "patch_router_dependency_overrides"}

\* a plausible slip: patch_router_tags registered without stage=100
StageDefaultForTags(hook) ==
    IF hook = "patch_router_dependency_overrides" THEN 100 ELSE 0

\* the stage each hook is registered at: plugin.setup() or plugin.setup(stage=100)
Stage(hook) ==
    IF hook \in {"patch_router_tags", "patch_router_dependency_overrides"} THEN 100 ELSE 0

\* the hooks whose result a hook takes as a parameter: app: FastAPI is the
\* value create_fastapi returns
Needs(hook) ==
    IF hook \in {"add_middleware", "stop_on_app_stop", "patch_router_tags",
                 "patch_router_dependency_overrides"}
    THEN {"create_fastapi"} ELSE {}

\* the plugin host runs a setup hook once, after the hooks it takes values
\* from and after every hook of a lower stage, and only while startup has
\* not failed
CanRun(hook) ==
    /\ run.state = "pending"
    /\ hook \notin done
    /\ Needs(hook) \subseteq done
    /\ \A h \in SetupHooks : Stage(h) < Stage(hook) => h \in done

\* ------------------------------------------------------------------- state

NoLifecycle(available) == [available |-> available, on_stop |-> <<>>, stop_calls |-> 0]

RunPending == [state |-> "pending", called |-> {}, error |-> None]

NoPatch == [input |-> [data |-> <<>>, fields_set |-> {}], to |-> <<>>, applied |-> FALSE]

NoHist ==
    [stage_routes |-> <<>>, before |-> NoApp, to0 |-> <<>>, shutdown_events |-> 0]

\* a started process before any hook has run
Start(config, available) ==
    /\ cfg = config
    /\ app = NoApp
    /\ swagger = "get_swagger_ui_html"
    /\ done = {}
    /\ lm = NoLifecycle(available)
    /\ server = NoServer
    /\ run = RunPending
    /\ patch = NoPatch
    /\ hist = NoHist

\* server selection and uvicorn settings vary; the setup keys are the
\* defaults or all switched on
Init ==
    \E s \in Servers, u \in UvicornConfigs, available \in BOOLEAN, on \in BOOLEAN :
        Start(ConfigValue(s, u,
                          IF on THEN Some(<<OpenapiTag(Str_usersc)>>) ELSE NoneOf,
                          IF on THEN Str_v1c ELSE <<>>,
                          IF on THEN [swagger_hierarchical_tags |-> TRUE,
                                      tag_prefixes |-> TRUE,
                                      dependency_overrides |-> [c \in {"a"} |-> "s"]]
                                ELSE PatchDefault,
                          IF on THEN Some(CORSDefault) ELSE NoneOf),
              available)

\* the setup keys vary; the server is uvicorn with its defaults, or none
InitSetup ==
    \E s \in {"uvicorn", None}, available \in BOOLEAN,
       tags \in {NoneOf, Some(<<OpenapiTag(Str_usersc)>>)},
       prefix \in {<<>>, Str_v1c},
       p \in PatchConfigs(StartupOverrides),
       cors \in {NoneOf, Some(CORSDefault)} :
        Start(ConfigValue(s, UvicornDefault, tags, prefix, p, cors), available)

\* ----------------------------------------------------------------- actions

CreateFastapi ==
    /\ CanRun("create_fastapi")
    /\ app' = create_fastapi(cfg)
    /\ done' = done \cup {"create_fastapi"}
    /\ UNCHANGED <<cfg, swagger, lm, server, run, patch, hist>>

\* a default-stage setup hook of another plugin registers a route on the app
AddRoute ==
    /\ run.state = "pending"
    /\ "create_fastapi" \in done
    /\ \A h \in SetupHooks : Stage(h) > 0 => h \notin done
    /\ Len(app.routes) < 1 + MaxRoutes
    /\ \E route \in StartupRoutes :
        app' = [app EXCEPT !.routes = Append(@, route)]
    /\ UNCHANGED <<cfg, swagger, done, lm, server, run, patch, hist>>

AddMiddleware ==
    /\ CanRun("add_middleware")
    /\ app' = add_middleware(app, cfg)
    /\ done' = done \cup {"add_middleware"}
    /\ UNCHANGED <<cfg, swagger, lm, server, run, patch, hist>>

StopOnAppStop ==
    /\ CanRun("stop_on_app_stop")
    /\ app' = stop_on_app_stop(app, lm)
    /\ done' = done \cup {"stop_on_app_stop"}
    /\ UNCHANGED <<cfg, swagger, lm, server, run, patch, hist>>

AddHierarchialTags ==
    /\ CanRun("add_hierarchial_tags")
    /\ swagger' = add_hierarchial_tags(swagger, cfg)
    /\ done' = done \cup {"add_hierarchial_tags"}
    /\ UNCHANGED <<cfg, app, lm, server, run, patch, hist>>

\* the routes of the app when the first stage-100 hook starts
StageRoutes == IF hist.stage_routes = <<>> THEN app.routes ELSE hist.stage_routes

PatchRouterTags ==
    /\ CanRun("patch_router_tags")
    /\ app' = patch_router_tags(app, cfg)
    /\ done' = done \cup {"patch_router_tags"}
    /\ hist' = [hist EXCEPT !.stage_routes = StageRoutes, !.before = app]
    /\ UNCHANGED <<cfg, swagger, lm, server, run, patch>>

PatchRouterDependencyOverrides ==
    /\ CanRun("patch_router_dependency_overrides")
    /\ LET r == patch_router_dependency_overrides(app, cfg)
       IN  /\ app' = r.app
           /\ IF r.raised
              THEN /\ run' = [run EXCEPT !.state = "setup_failed",
                                         !.error = "RecursionError"]
                   /\ done' = done
              ELSE /\ run' = run
                   /\ done' = done \cup {"patch_router_dependency_overrides"}
    /\ hist' = [hist EXCEPT !.stage_routes = StageRoutes, !.before = app]
    /\ UNCHANGED <<cfg, swagger, lm, server, patch>>

\* the run hook: the host starts it once every setup hook has completed
RunFastapiApp ==
    /\ run.state = "pending"
    /\ SetupHooks \subseteq done
    /\ \E lib \in {"asyncio", "trio", "curio"} :
        LET r == run_fastapi_app(cfg, lm, lib)
        IN  /\ run' = [state |-> IF r.result = "serving" THEN "serving"
                                 ELSE IF r.result = "returned" THEN "returned"
                                 ELSE "raised",
                       called |-> r.called,
                       error |-> IF r.result \in {"serving", "returned"}
                                 THEN None ELSE r.result]
            /\ server' = r.server
            /\ lm' = r.lm
    /\ UNCHANGED <<cfg, app, swagger, done, patch, hist>>

\* the host stops the lifecycle module: LifecycleModule.stop()
LifecycleStop ==
    /\ lm.available
    /\ run.state \in {"serving", "returned", "raised"}
    /\ lm.stop_calls < MaxStops
    /\ LET r == lm_stop(lm, server)
       IN  lm' = r.lm /\ server' = r.server
    /\ UNCHANGED <<cfg, app, swagger, done, run, patch, hist>>

\* the serving ASGI server is asked to exit from outside (a signal)
ExitSignal ==
    /\ server.state = "serving"
    /\ ~server.should_exit
    /\ server' = [server EXCEPT !.should_exit = TRUE]
    /\ UNCHANGED <<cfg, app, swagger, done, lm, run, patch, hist>>

\* server.serve() leaves its main loop once should_exit is set, runs the
\* application's shutdown event handlers and returns to the run hook
ServerShutdown ==
    /\ server.state = "serving"
    /\ server.should_exit
    /\ LET r == IF "shutdown" \in Range(app.on_shutdown)
                THEN shutdown(lm, server)
                ELSE [lm |-> lm, server |-> server]
       IN  /\ lm' = r.lm
           /\ server' = [r.server EXCEPT !.state = "exited"]
    /\ run' = [run EXCEPT !.state = "returned"]
    /\ hist' = [hist EXCEPT !.shutdown_events = @ + 1]
    /\ UNCHANGED <<cfg, app, swagger, done, patch>>

Next ==
    \/ CreateFastapi
    \/ AddRoute
    \/ AddMiddleware
    \/ StopOnAppStop
    \/ AddHierarchialTags
    \/ PatchRouterTags
    \/ PatchRouterDependencyOverrides
    \/ RunFastapiApp
    \/ LifecycleStop
    \/ ExitSignal
    \/ ServerShutdown

Spec == Init /\ [][Next]_vars

SpecSetup == InitSetup /\ [][Next]_vars

\* ------------------------------------------- the hooks and Patch on their own

DefaultStage == {h \in SetupHooks : Stage(h) = 0}

\* the end of the default stage: the app exists, the default-stage hooks of
\* this plugin have run with the default keys, and other plugins have
\* registered their routes
AtStage100(config, routes, overrides) ==
    /\ cfg = config
    /\ app = [FastAPI(config.app) EXCEPT
                !.routes = @ \o routes, !.dependency_overrides = overrides]
    /\ swagger = "get_swagger_ui_html"
    /\ done = DefaultStage
    /\ lm = NoLifecycle(FALSE)
    /\ server = NoServer
    /\ run = RunPending
    /\ patch = NoPatch
    /\ hist = NoHist

TagRoutes == {APIRoute("/b", "b", tags) : tags \in TagLists} \cup {Mount("/static")}

InitTags ==
    \E toggle \in BOOLEAN, prefix \in TagPrefixes, tags \in OpenapiTagLists,
       routes \in SeqsUpTo(TagRoutes, MaxRoutes) :
        AtStage100(ConfigValue(None, UvicornDefault, tags, prefix,
                               [PatchDefault EXCEPT !.tag_prefixes = toggle], NoneOf),
                   routes, <<>>)

NextTags == PatchRouterTags

SpecTags == InitTags /\ [][NextTags]_vars

DepRoutes == {APIRoute("/e", "e", <<>>), APIRoute("/w", "w", <<>>), Mount("/static")}

\* entries app.dependency_overrides holds before the hook runs
EarlierOverrides == {<<>>, [c \in {"b", "w"} |-> "e"]}

InitDeps ==
    \E overrides \in OverrideMaps, earlier \in EarlierOverrides,
       routes \in SeqsUpTo(DepRoutes, MaxRoutes) :
        AtStage100(ConfigValue(None, UvicornDefault, NoneOf, <<>>,
                               [PatchDefault EXCEPT !.dependency_overrides = overrides],
                               NoneOf),
                   routes, earlier)

NextDeps == PatchRouterDependencyOverrides

SpecDeps == InitDeps /\ [][NextDeps]_vars

InitPatch ==
    /\ \E input \in PatchInputs, to \in Targets :
        patch = [input |-> input, to |-> to, applied |-> FALSE]
    /\ cfg = ConfigValue(None, UvicornDefault, NoneOf, <<>>, PatchDefault, NoneOf)
    /\ app = NoApp
    /\ swagger = "get_swagger_ui_html"
    /\ done = {}
    /\ lm = NoLifecycle(FALSE)
    /\ server = NoServer
    /\ run = RunPending
    /\ hist = NoHist

\* a route handler calls input.apply(model)
Apply ==
    /\ ~patch.applied
    /\ patch' = [patch EXCEPT !.to = PatchApply(patch.input, patch.to),
                              !.applied = TRUE]
    /\ hist' = [hist EXCEPT !.to0 = patch.to]
    /\ UNCHANGED <<cfg, app, swagger, done, lm, server, run>>

NextPatch == Apply

SpecPatch == InitPatch /\ [][NextPatch]_vars

\* --------------------------------------------------------------- properties

\* C2: Patch.apply(to) assigns exactly the fields of the input's fields-set,
\* each to the input's value (an explicit None included); every other
\* attribute of the target keeps its value, and an input with no field set
\* changes nothing.
C2_ApplyAssignsFieldsSet ==
    patch.applied =>
        /\ \A f \in patch.input.fields_set :
            f \in DOMAIN patch.to /\ patch.to[f] = patch.input.data[f]
        /\ \A a \in (DOMAIN hist.to0) \ patch.input.fields_set :
            a \in DOMAIN patch.to /\ patch.to[a] = hist.to0[a]
        /\ DOMAIN patch.to = (DOMAIN hist.to0) \cup patch.input.fields_set
        /\ (patch.input.fields_set = {} => patch.to = hist.to0)

C2_Witness ==
    /\ patch.applied
    /\ patch.input.fields_set = {"x"}
    /\ patch.input.data["x"] = None
    /\ DOMAIN hist.to0 = TargetAttrs
    /\ hist.to0["x"] = "v1" /\ hist.to0["y"] = "v2"
    /\ patch.to["x"] = None /\ patch.to["y"] = "v2"

\* the string s with one trailing ":" removed, when it has one
IsOneColonRemoved(s, r) ==
    IF Len(s) > 0 /\ s[Len(s)] = ":" THEN r \o <<":">> = s ELSE r = s

TagsHookRan ==
    /\ "patch_router_tags" \in done
    /\ cfg.patch.tag_prefixes
    /\ cfg.routes.tag_prefix # <<>>

RECURSIVE NoKeyCall(_, _)
NoKeyCall(dependant, keys) ==
    /\ dependant.call \notin keys
    /\ \A i \in 1..Len(dependant.dependencies) :
        NoKeyCall(dependant.dependencies[i], keys)

SameAttributes(old, new) ==
    /\ new.path = old.path
    /\ new.name = old.name
    /\ new.use_cache = old.use_cache
    /\ new.security_scopes = old.security_scopes

\* new is old with every dependant whose call is a key replaced by one built
\* for the mapped replacement, with the same path, name, use_cache and
\* security_scopes
RECURSIVE Replaces(_, _, _)
Replaces(old, new, overrides) ==
    LET built == IF old.call \in DOMAIN overrides
                 THEN get_dependant(overrides[old.call], old.path, old.name,
                                    old.use_cache, old.security_scopes)
                 ELSE old
    IN  /\ new.call = built.call
        /\ SameAttributes(old, new)
        /\ Len(new.dependencies) = Len(built.dependencies)
        /\ \A i \in 1..Len(built.dependencies) :
            Replaces(built.dependencies[i], new.dependencies[i], overrides)

NoReplacementIsKey(overrides) ==
    \A k \in DOMAIN overrides : overrides[k] \notin DOMAIN overrides

DepsHookReturned ==
    /\ "patch_router_dependency_overrides" \in done
    /\ DOMAIN cfg.patch.dependency_overrides # {}
    /\ NoReplacementIsKey(cfg.patch.dependency_overrides)

C3_RaisedWitness ==
    /\ run.error = "RecursionError"
    /\ NoReplacementIsKey(cfg.patch.dependency_overrides)

RunHookRan == run.state \in {"serving", "returned", "raised"}

\* C1: run_fastapi_app calls the uvicorn runner exactly when server is
\* "uvicorn" and the hypercorn runner exactly when server is "hypercorn",
\* never both; when server is None it calls neither and returns normally.
C1_ServerSelection ==
    RunHookRan =>
        /\ ("run_uvicorn" \in run.called) = (cfg.server = "uvicorn")
        /\ ("run_hypercorn" \in run.called) = (cfg.server = "hypercorn")
        /\ Cardinality(run.called) <= 1
        /\ cfg.server = None =>
            /\ run.called = {}
            /\ run.state = "returned"
            /\ run.error = None
            /\ server = NoServer

C1_Witness ==
    /\ RunHookRan
    /\ cfg.server = None
    /\ run.called = {}
    /\ run.state = "returned"

\* the three settings run_uvicorn refuses, read from the uvicorn configuration
Unsupported(config) ==
    \/ config.uvicorn.reload
    \/ config.uvicorn.uds \notin {None, ""}
    \/ (config.uvicorn.workers # NoneOf /\ Get(config.uvicorn.workers) > 1)

\* C6: run_uvicorn returns without creating or serving a server when
\* uvicorn.enabled is false; with reload set, uds set (a non-empty path) or
\* workers greater than 1 it raises NotImplementedError before server.serve()
\* and before a lifecycle stop hook is registered; server.serve() is reached
\* only when uvicorn is enabled and none of the three holds.
C6_UvicornRefusals ==
    (RunHookRan /\ run.called = {"run_uvicorn"}) =>
        /\ ~cfg.uvicorn.enabled =>
            /\ server = NoServer
            /\ run.state = "returned" /\ run.error = None
            /\ lm.on_stop = <<>>
        /\ (cfg.uvicorn.enabled /\ Unsupported(cfg)) =>
            /\ run.state = "raised" /\ run.error = "NotImplementedError"
            /\ server.state = "created"
            /\ lm.on_stop = <<>>
        /\ server.state \in {"serving", "exited"} =>
            cfg.uvicorn.enabled /\ ~Unsupported(cfg)
        /\ (cfg.uvicorn.enabled /\ ~Unsupported(cfg)) =>
            server.state \in {"serving", "exited"}

C6_Witness ==
    /\ run.called = {"run_uvicorn"}
    /\ cfg.uvicorn.enabled
    /\ ~cfg.uvicorn.reload
    /\ cfg.uvicorn.uds = None
    /\ cfg.uvicorn.workers = Some(2)
    /\ lm.available
    /\ run.state = "raised"
    /\ run.error = "NotImplementedError"

\* the startup of this plugin alone, and the server's shutdown; uvicorn's main
\* loop polls should_exit, so a pending shutdown is eventually carried out
NextServe ==
    \/ CreateFastapi
    \/ AddMiddleware
    \/ StopOnAppStop
    \/ AddHierarchialTags
    \/ PatchRouterTags
    \/ PatchRouterDependencyOverrides
    \/ RunFastapiApp
    \/ LifecycleStop
    \/ ExitSignal
    \/ ServerShutdown

SpecServe == Init /\ [][NextServe]_vars /\ WF_vars(ServerShutdown)

UvicornServing == server.kind = "uvicorn" /\ server.state \in {"serving", "exited"}

\* both hooks are registered exactly when a lifecycle module is available;
\* without one nothing is registered, nothing is raised and uvicorn serves
C8_Registered ==
    /\ "stop_on_app_stop" \in done =>
        app.on_shutdown = (IF lm.available THEN <<"shutdown">> ELSE <<>>)
    /\ UvicornServing =>
        lm.on_stop = (IF lm.available THEN <<"stop">> ELSE <<>>)
    /\ (~lm.available /\ RunHookRan /\ cfg.server = "uvicorn"
            /\ cfg.uvicorn.enabled /\ ~Unsupported(cfg)) =>
        /\ UvicornServing
        /\ run.error = None
        /\ lm.stop_calls = 0
    /\ hist.shutdown_events <= 1
    /\ server.state = "exited" => hist.shutdown_events = 1 /\ run.state = "returned"

\* a lifecycle stop sets should_exit, and the shutdown event stops the
\* lifecycle module once
C8_Coupled ==
    /\ (lm'.stop_calls > lm.stop_calls /\ UvicornServing /\ lm.available)
            => server'.should_exit
    /\ (hist'.shutdown_events > hist.shutdown_events /\ lm.available)
            => lm'.stop_calls = lm.stop_calls + 1 /\ server'.state = "exited"
    /\ server.state = "exited" => server' = server /\ lm'.on_stop = lm.on_stop

NewlyDone(hook) == hook \notin done /\ hook \in done'

HasCORS(a) == "CORSMiddleware" \in Range(a.user_middleware)

C4_Enabled ==
    /\ "add_middleware" \in done => (HasCORS(app) = (cfg.middleware.cors # NoneOf))
    /\ "add_middleware" \notin done => ~HasCORS(app)
    /\ "add_hierarchial_tags" \in done =>
        ((swagger = "get_swagger_ui_html_patched") = cfg.patch.swagger_hierarchical_tags)
    /\ "add_hierarchial_tags" \notin done => swagger = "get_swagger_ui_html"

C4_Frame ==
    /\ (NewlyDone("add_middleware") /\ cfg.middleware.cors = NoneOf)
            => app' = app /\ swagger' = swagger
    /\ (NewlyDone("add_hierarchial_tags") /\ ~cfg.patch.swagger_hierarchical_tags)
            => app' = app /\ swagger' = swagger
    /\ (NewlyDone("patch_router_tags")
            /\ (~cfg.patch.tag_prefixes \/ cfg.routes.tag_prefix = <<>>))
            => app' = app /\ swagger' = swagger
    /\ (NewlyDone("patch_router_dependency_overrides")
            /\ DOMAIN cfg.patch.dependency_overrides = {})
            => app' = app /\ swagger' = swagger

\* C4: each setup hook acts only when its key enables it: add_middleware adds
\* the CORS middleware exactly when middleware.cors is not None;
\* add_hierarchial_tags replaces get_swagger_ui_html exactly when
\* patch.swagger_hierarchical_tags is true; patch_router_tags changes nothing
\* when patch.tag_prefixes is false or routes.tag_prefix is empty; and
\* patch_router_dependency_overrides changes nothing when the mapping is empty.
C4_HooksGated == []C4_Enabled /\ [][C4_Frame]_vars

\* patch_router_tags has run with tag_prefixes false and a prefix configured,
\* on an app holding a tagged APIRoute and openapi tags
C4_Witness ==
    /\ "patch_router_tags" \in done
    /\ ~cfg.patch.tag_prefixes
    /\ cfg.routes.tag_prefix = Str_v1c
    /\ app.openapi_tags # NoneOf
    /\ \E i \in 1..Len(app.routes) :
        IsAPIRoute(app.routes[i]) /\ app.routes[i].tags = <<Str_usersc>>
    /\ cfg.middleware.cors = NoneOf
    /\ "add_middleware" \in done
    /\ cfg.patch.swagger_hierarchical_tags
    /\ swagger = "get_swagger_ui_html_patched"

AppHooks ==
    {"add_middleware", "stop_on_app_stop", "patch_router_tags",
     "patch_router_dependency_overrides"}

C5_Order ==
    /\ \A h \in AppHooks : NewlyDone(h) => "create_fastapi" \in done /\ app.created
    /\ \A h \in {"patch_router_tags", "patch_router_dependency_overrides"} :
        NewlyDone(h) =>
            {"create_fastapi", "add_middleware", "stop_on_app_stop",
             "add_hierarchial_tags"} \subseteq done
    /\ (hist'.before # hist.before) =>
            {"create_fastapi", "add_middleware", "stop_on_app_stop",
             "add_hierarchial_tags"} \subseteq done
    /\ (run.state = "pending" /\ run'.state \in {"serving", "returned", "raised"})
            => SetupHooks \subseteq done

\* every APIRoute of the app carries the prefixed tags of a registered route,
\* and no dependant call that is configured to be overridden
C5_RoutesPatched ==
    \A i \in 1..Len(app.routes) :
        IsAPIRoute(app.routes[i]) =>
            /\ (cfg.patch.tag_prefixes /\ cfg.routes.tag_prefix # <<>>) =>
                \E route \in StartupRoutes :
                    /\ IsAPIRoute(route)
                    /\ route.path = app.routes[i].path
                    /\ Len(route.tags) = Len(app.routes[i].tags)
                    /\ \A j \in 1..Len(route.tags) :
                        IsOneColonRemoved(cfg.routes.tag_prefix \o route.tags[j],
                                          app.routes[i].tags[j])
            /\ NoKeyCall(app.routes[i].dependant, DOMAIN cfg.patch.dependency_overrides)

C5_Staged ==
    /\ SetupHooks \subseteq done =>
        /\ app.created
        /\ Len(app.routes) = Len(hist.stage_routes)
        /\ C5_RoutesPatched
    /\ (RunHookRan \/ server # NoServer) => SetupHooks \subseteq done

====
